---- MODULE Spec2Model ----
(***************************************************************************)
(* Model of the AI Security Report Assistant:                              *)
(*   - backend/main.py: the FastAPI service (GET /, POST /process) that    *)
(*     forwards a vulnerability finding to Gemini, strips markdown fences  *)
(*     from the reply, parses it as JSON and normalises the result;        *)
(*   - ticket_quality_signal_assistant.py: the ticket scorer CLI.          *)
(*                                                                         *)
(* A Python str is a sequence of one-character strings.  The alphabet of   *)
(* the texts explored is: ASCII letters, decimal digits, the JSON          *)
(* punctuation { } [ ] : , and the double quote, the backtick, "_", and    *)
(* the two whitespace characters " " and "\n".  No backslash, ".", "-",    *)
(* "+" occurs, so string escapes, signs and fractions never arise.         *)
(***************************************************************************)
EXTENDS Integers, Sequences, FiniteSets, TLC

(***************************************************************************)
(* Bounds of the explored inputs.                                          *)
(***************************************************************************)
\* longest vulnerability_text of a request
MaxTextLen == 2
\* most whitespace characters around a provider reply
MaxPad == 1
\* most three-word filler blocks in front of the chunks of a ticket
MaxBlocks == 8
\* most chunks in a ticket
MaxChunks == 3

(***************************************************************************)
(* Python str primitives.                                                  *)
(***************************************************************************)
UpperLetters ==
    <<"A", "B", "C", "D", "E", "F", "G", "H", "I", "J", "K", "L", "M",
      "N", "O", "P", "Q", "R", "S", "T", "U", "V", "W", "X", "Y", "Z">>

LowerLetters ==
    <<"a", "b", "c", "d", "e", "f", "g", "h", "i", "j", "k", "l", "m",
      "n", "o", "p", "q", "r", "s", "t", "u", "v", "w", "x", "y", "z">>

\* the backtick character (SANY reads a backtick, even inside a string, as the
\* start of a quotation, so the character is named)
Backtick == "BACKTICK"

\* the characters str.strip() removes (those of the alphabet)
Whitespace == {" ", "\n"}

\* str.lower() on one character
lower_char(c) ==
    IF \E i \in 1..26 : UpperLetters[i] = c
    THEN LowerLetters[CHOOSE i \in 1..26 : UpperLetters[i] = c]
    ELSE c

\* str.upper() on one character
upper_char(c) ==
    IF \E i \in 1..26 : LowerLetters[i] = c
    THEN UpperLetters[CHOOSE i \in 1..26 : LowerLetters[i] = c]
    ELSE c

\* str.lower()
lower(s) == [i \in 1..Len(s) |-> lower_char(s[i])]

\* mutation of capitalize: s[0].upper() + s[1:], the rest left as it is
capitalize_first_only(s) ==
    [i \in 1..Len(s) |-> IF i = 1 THEN upper_char(s[i]) ELSE s[i]]

\* str.capitalize(): first character upper-cased, the rest lower-cased
capitalize(s) ==
    [i \in 1..Len(s) |-> IF i = 1 THEN upper_char(s[i]) ELSE lower_char(s[i])]

\* str.lstrip()
RECURSIVE lstrip(_)
lstrip(s) ==
    IF s # <<>> /\ Head(s) \in Whitespace THEN lstrip(Tail(s)) ELSE s

\* str.rstrip()
RECURSIVE rstrip(_)
rstrip(s) ==
    IF s # <<>> /\ s[Len(s)] \in Whitespace
    THEN rstrip(SubSeq(s, 1, Len(s) - 1))
    ELSE s

\* str.strip()
strip(s) == rstrip(lstrip(s))

\* str.startswith(prefix)
startswith(s, prefix) ==
    Len(s) >= Len(prefix) /\ SubSeq(s, 1, Len(prefix)) = prefix

\* str.endswith(suffix)
endswith(s, suffix) ==
    Len(s) >= Len(suffix) /\ SubSeq(s, Len(s) - Len(suffix) + 1, Len(s)) = suffix

\* s[n:]
drop_first(s, n) == SubSeq(s, n + 1, Len(s))

\* s[:-n]
drop_last(s, n) == SubSeq(s, 1, Len(s) - n)

\* s[from:to] with 0-based indices, 0 <= from
slice(s, from, to) ==
    SubSeq(s, from + 1, IF to < Len(s) THEN to ELSE Len(s))

\* s[i:i+1] with a 0-based index: "" past the end
char_at(s, i) == IF i < Len(s) THEN s[i + 1] ELSE ""

(***************************************************************************)
(* Python values, as json.loads builds them.                               *)
(***************************************************************************)
None == [t |-> "None", v |-> <<>>]
PyStr(s) == [t |-> "str", v |-> s]
PyInt(n) == [t |-> "int", v |-> n]
PyBool(b) == [t |-> "bool", v |-> b]
\* a float, kept as the text str() gives for it
PyFloat(text) == [t |-> "float", v |-> text]
PyList(items) == [t |-> "list", v |-> items]
\* a dict keeps its (key, value) pairs in insertion order; a later pair with
\* the same key replaces the earlier one on lookup
PyDict(pairs) == [t |-> "dict", v |-> pairs]

(***************************************************************************)
(* json.loads (json.decoder / json.scanner), on the alphabet above.        *)
(* A result is [ok |-> TRUE, value, end] or the JSONDecodeError            *)
(* [ok |-> FALSE, msg, pos]; indices are 0-based as in the decoder.  The   *)
(* messages are the decoder's, with the quotes around the delimiter of     *)
(* "Expecting ':' delimiter" and "Expecting ',' delimiter" left out.       *)
(***************************************************************************)
JsonWs == {" ", "\n"}
Digits == <<"0", "1", "2", "3", "4", "5", "6", "7", "8", "9">>

Decoded(value, end) == [ok |-> TRUE, value |-> value, end |-> end]
JSONDecodeError(msg, pos) == [ok |-> FALSE, msg |-> msg, pos |-> pos]

\* WHITESPACE.match(s, end).end()
RECURSIVE skip_ws(_, _)
skip_ws(s, end) ==
    IF char_at(s, end) \in JsonWs THEN skip_ws(s, end + 1) ELSE end

\* scanstring: s[end] is the first character after the opening quote
RECURSIVE scanstring(_, _, _)
scanstring(s, end, begin) ==
    IF end >= Len(s)
    THEN JSONDecodeError("Unterminated string starting at", begin)
    ELSE IF s[end + 1] = "\""
    THEN Decoded(PyStr(SubSeq(s, begin + 2, end)), end + 1)
    ELSE IF s[end + 1] = "\n"
    THEN JSONDecodeError("Invalid control character at", end)
    ELSE scanstring(s, end + 1, begin)

is_digit(c) == \E i \in 1..Len(Digits) : Digits[i] = c
digit_value(c) == (CHOOSE i \in 1..Len(Digits) : Digits[i] = c) - 1

\* the end of the match of NUMBER_RE's integer part at idx: 0 | [1-9][0-9]*
RECURSIVE digits_end(_, _)
digits_end(s, idx) ==
    IF is_digit(char_at(s, idx)) THEN digits_end(s, idx + 1) ELSE idx

number_end(s, idx) ==
    IF char_at(s, idx) = "0" THEN idx + 1 ELSE digits_end(s, idx)

\* the end of the match of NUMBER_RE's exponent part at idx, [eE][0-9]+, or
\* idx when there is none
exponent_end(s, idx) ==
    IF char_at(s, idx) \in {"e", "E"} /\ is_digit(char_at(s, idx + 1))
    THEN digits_end(s, idx + 1)
    ELSE idx

\* int(s[from:to])
RECURSIVE int_of(_, _, _)
int_of(s, from, to) ==
    IF from >= to THEN 0
    ELSE 10 * int_of(s, from, to - 1) + digit_value(s[to])

\* str(n) for an int n >= 0
RECURSIVE str_of_int(_)
str_of_int(n) ==
    IF n < 10 THEN <<Digits[n + 1]>>
    ELSE str_of_int(n \div 10) \o <<Digits[(n % 10) + 1]>>

RECURSIVE power_of_ten(_)
power_of_ten(n) == IF n = 0 THEN 1 ELSE 10 * power_of_ten(n - 1)

\* the int or float of a number whose integer part ends at mid and whose
\* exponent part ends at end (values below 10^16, which str() writes in full)
number_value(s, idx, mid, end) ==
    IF end = mid THEN PyInt(int_of(s, idx, mid))
    ELSE PyFloat(str_of_int(int_of(s, idx, mid) * power_of_ten(int_of(s, mid + 1, end)))
                 \o <<".", "0">>)

RECURSIVE scan_once(_, _)
RECURSIVE object_pairs(_, _, _)
RECURSIVE array_values(_, _, _)

\* JSONObject: s[end] is the first character after "{"
JSONObject(s, end0) ==
    LET end1 == IF char_at(s, end0) # "\"" /\ char_at(s, end0) \in JsonWs
                THEN skip_ws(s, end0) ELSE end0
        nextchar == char_at(s, end1)
    IN  IF nextchar = "}" THEN Decoded(PyDict(<<>>), end1 + 1)
        ELSE IF nextchar # "\""
        THEN JSONDecodeError(
                 "Expecting property name enclosed in double quotes", end1)
        ELSE object_pairs(s, end1 + 1, <<>>)

\* the "while True" loop of JSONObject: s[end] follows a key's opening quote
object_pairs(s, end0, pairs) ==
    LET key == scanstring(s, end0, end0 - 1)
    IN  IF ~key.ok THEN key
        ELSE
        LET end1 == IF char_at(s, key.end) # ":" THEN skip_ws(s, key.end)
                    ELSE key.end
        IN  IF char_at(s, end1) # ":"
            THEN JSONDecodeError("Expecting : delimiter", end1)
            ELSE
            LET item == scan_once(s, skip_ws(s, end1 + 1))
            IN  IF ~item.ok THEN item
                ELSE
                LET pairs1 == Append(pairs, <<key.value.v, item.value>>)
                    end2 == skip_ws(s, item.end)
                    nextchar == char_at(s, end2)
                IN  IF nextchar = "}" THEN Decoded(PyDict(pairs1), end2 + 1)
                    ELSE IF nextchar # ","
                    THEN JSONDecodeError("Expecting , delimiter", end2)
                    ELSE
                    LET end3 == skip_ws(s, end2 + 1)
                    IN  IF char_at(s, end3) # "\""
                        THEN JSONDecodeError(
                                 "Expecting property name enclosed in double quotes",
                                 end3)
                        ELSE object_pairs(s, end3 + 1, pairs1)

\* JSONArray: s[end] is the first character after "["
JSONArray(s, end0) ==
    LET end1 == skip_ws(s, end0)
    IN  IF char_at(s, end1) = "]" THEN Decoded(PyList(<<>>), end1 + 1)
        ELSE array_values(s, end1, <<>>)

\* the "while True" loop of JSONArray
array_values(s, end0, values) ==
    LET item == scan_once(s, end0)
    IN  IF ~item.ok THEN item
        ELSE
        LET values1 == Append(values, item.value)
            end1 == skip_ws(s, item.end)
            nextchar == char_at(s, end1)
        IN  IF nextchar = "]" THEN Decoded(PyList(values1), end1 + 1)
            ELSE IF nextchar # ","
            THEN JSONDecodeError("Expecting , delimiter", end1)
            ELSE array_values(s, skip_ws(s, end1 + 1), values1)

\* py_make_scanner._scan_once; StopIteration(idx) surfaces in every caller as
\* JSONDecodeError("Expecting value", idx)
scan_once(s, idx) ==
    LET nextchar == char_at(s, idx)
    IN  IF nextchar = "" THEN JSONDecodeError("Expecting value", idx)
        ELSE IF nextchar = "\"" THEN scanstring(s, idx + 1, idx)
        ELSE IF nextchar = "{" THEN JSONObject(s, idx + 1)
        ELSE IF nextchar = "[" THEN JSONArray(s, idx + 1)
        ELSE IF nextchar = "n" /\ slice(s, idx, idx + 4) = <<"n", "u", "l", "l">>
        THEN Decoded(None, idx + 4)
        ELSE IF nextchar = "t" /\ slice(s, idx, idx + 4) = <<"t", "r", "u", "e">>
        THEN Decoded(PyBool(TRUE), idx + 4)
        ELSE IF nextchar = "f"
                /\ slice(s, idx, idx + 5) = <<"f", "a", "l", "s", "e">>
        THEN Decoded(PyBool(FALSE), idx + 5)
        ELSE IF is_digit(nextchar)
        THEN LET mid == number_end(s, idx)
                 end == exponent_end(s, mid)
             IN  Decoded(number_value(s, idx, mid, end), end)
        ELSE IF nextchar = "N" /\ slice(s, idx, idx + 3) = <<"N", "a", "N">>
        THEN Decoded(PyFloat(<<"n", "a", "n">>), idx + 3)
        ELSE IF nextchar = "I"
                /\ slice(s, idx, idx + 8) = <<"I", "n", "f", "i", "n", "i", "t", "y">>
        THEN Decoded(PyFloat(<<"i", "n", "f">>), idx + 8)
        ELSE JSONDecodeError("Expecting value", idx)

\* json.loads(s) = JSONDecoder.decode(s)
json_loads(s) ==
    LET obj == scan_once(s, skip_ws(s, 0))
    IN  IF ~obj.ok THEN obj
        ELSE IF skip_ws(s, obj.end) # Len(s)
        THEN JSONDecodeError("Extra data", skip_ws(s, obj.end))
        ELSE obj

(***************************************************************************)
(* backend/main.py: the state of the service.                              *)
(***************************************************************************)
VARIABLES
    \* the provider credential read from the environment at startup
    GEMINI_API_KEY,
    \* whether the installed pydantic converts a number given for a str field
    \* (pydantic 1 does, pydantic 2 raises a ValidationError); the source pins
    \* no version, so either build is possible
    pydantic_coerces,
    \* where the handler of POST /process stands: "idle" (no request in
    \* progress) or "generate_content" (blocked in the provider call)
    pc,
    \* the request being served or last served: [path, vulnerability_text]
    request,
    \* the provider calls made for that request and what the provider did:
    \* [calls, outcome, text], outcome in "none", "pending", "text", "raised"
    provider,
    \* the response to that request: [status, message, detail, result];
    \* status 0 while there is none
    response,
    \* ticket_quality_signal_assistant.py: the file named on the command line,
    \* [exists, readable, content]
    ticket_file,
    \* the dict analyze_ticket_quality returned: [quality_score, security_signals]
    results,
    \* what cli() printed
    stdout

vars == <<GEMINI_API_KEY, pydantic_coerces, pc, request, provider, response,
          ticket_file, results, stdout>>
service_vars == <<GEMINI_API_KEY, pydantic_coerces, pc, request, provider, response>>
cli_vars == <<ticket_file, results, stdout>>

(***************************************************************************)
(* Literals of backend/main.py.                                            *)
(***************************************************************************)
Fence == <<Backtick, Backtick, Backtick>>
FenceJson == <<Backtick, Backtick, Backtick, "j", "s", "o", "n">>

severity_key == <<"s", "e", "v", "e", "r", "i", "t", "y">>
risk_summary_key == <<"r", "i", "s", "k", "_", "s", "u", "m", "m", "a", "r", "y">>
remediation_steps_key ==
    <<"r", "e", "m", "e", "d", "i", "a", "t", "i", "o", "n", "_",
      "s", "t", "e", "p", "s">>

Low == <<"L", "o", "w">>
Medium == <<"M", "e", "d", "i", "u", "m">>
High == <<"H", "i", "g", "h">>
Critical == <<"C", "r", "i", "t", "i", "c", "a", "l">>
\* ["Low", "Medium", "High", "Critical"]
AllowedSeverities == {Low, Medium, High, Critical}

AnalysisCompleted ==
    <<"A", "n", "a", "l", "y", "s", "i", "s", " ",
      "c", "o", "m", "p", "l", "e", "t", "e", "d">>
NoSpecificSteps ==
    <<"N", "o", " ", "s", "p", "e", "c", "i", "f", "i", "c", " ",
      "s", "t", "e", "p", "s", " ", "p", "r", "o", "v", "i", "d", "e", "d">>

(***************************************************************************)
(* Responses.  detail is <<>> or <<text, message of the exception, its     *)
(* position or -1>>; result is <<>> or <<the AnalysisResult>>.             *)
(***************************************************************************)
NoResponse == [status |-> 0, message |-> "", detail |-> <<>>, result |-> <<>>]

HTTPException(status_code, detail) ==
    [status |-> status_code, message |-> "", detail |-> detail, result |-> <<>>]

Ok(analysis_result) ==
    [status |-> 200, message |-> "", detail |-> <<>>, result |-> <<analysis_result>>]

\* an exception other than JSONDecodeError raised inside the try block
Raised(type) == [ok |-> FALSE, msg |-> type, pos |-> -1]
Value(v) == [ok |-> TRUE, value |-> v]

(***************************************************************************)
(* process_vulnerability, lines 67-74: the checks before the provider call.*)
(* <<>> when both pass, else <<the HTTPException raised>>.                 *)
(***************************************************************************)
\* Python truthiness of GEMINI_API_KEY: None and "" are falsy
truthy(key) == key.t = "str" /\ key.v # <<>>

\* mutation of precheck: the credential is checked before the text
precheck_key_first(vulnerability_text, api_key) ==
    IF ~truthy(api_key)
    THEN <<HTTPException(500,
             <<"Gemini API key not configured. Please set GEMINI_API_KEY environment variable.",
               "", -1>>)>>
    ELSE IF strip(vulnerability_text) = <<>>
    THEN <<HTTPException(400, <<"Vulnerability text cannot be empty", "", -1>>)>>
    ELSE <<>>

\* mutation of precheck: "if GEMINI_API_KEY is None", which lets "" through
precheck_key_is_none(vulnerability_text, api_key) ==
    IF strip(vulnerability_text) = <<>>
    THEN <<HTTPException(400, <<"Vulnerability text cannot be empty", "", -1>>)>>
    ELSE IF api_key.t = "None"
    THEN <<HTTPException(500,
             <<"Gemini API key not configured. Please set GEMINI_API_KEY environment variable.",
               "", -1>>)>>
    ELSE <<>>

precheck(vulnerability_text, api_key) ==
    IF strip(vulnerability_text) = <<>>
    THEN <<HTTPException(400, <<"Vulnerability text cannot be empty", "", -1>>)>>
    ELSE IF ~truthy(api_key)
    THEN <<HTTPException(500,
             <<"Gemini API key not configured. Please set GEMINI_API_KEY environment variable.",
               "", -1>>)>>
    ELSE <<>>

(***************************************************************************)
(* process_vulnerability, lines 111-134: from the reply to the result.     *)
(***************************************************************************)
\* mutation of remove_markdown: only an opening fence with "json" is removed
remove_markdown_json_only(text) ==
    LET t0 == strip(text)
        t1 == IF startswith(t0, FenceJson) THEN drop_first(t0, 7) ELSE t0
        t3 == IF endswith(t1, Fence) THEN drop_last(t1, 3) ELSE t1
    IN  strip(t3)

\* lines 112-121: "Remove markdown code blocks if present"
remove_markdown(text) ==
    LET t0 == strip(text)
        t1 == IF startswith(t0, FenceJson) THEN drop_first(t0, 7) ELSE t0
        t2 == IF startswith(t1, Fence) THEN drop_first(t1, 3) ELSE t1
        t3 == IF endswith(t2, Fence) THEN drop_last(t2, 3) ELSE t2
    IN  strip(t3)

\* dict.get(key, default) on the pairs of a dict: the last pair with the key
dict_has(pairs, key) == \E i \in 1..Len(pairs) : pairs[i][1] = key

dict_get(pairs, key, default) ==
    IF dict_has(pairs, key)
    THEN pairs[CHOOSE i \in 1..Len(pairs) :
                 /\ pairs[i][1] = key
                 /\ \A j \in (i + 1)..Len(pairs) : pairs[j][1] # key][2]
    ELSE default

\* analysis_data.get(key, default): AttributeError unless analysis_data is a dict
get(analysis_data, key, default) ==
    IF analysis_data.t = "dict"
    THEN Value(dict_get(analysis_data.v, key, default))
    ELSE Raised("AttributeError")

\* mutation of validate_severity: the membership test is left out
validate_severity_unchecked(severity) == severity

\* lines 126-128: "Validate severity"
validate_severity(severity) ==
    IF severity \notin AllowedSeverities THEN Medium ELSE severity

\* line 126: .get("severity", "Medium").capitalize(), then lines 127-128
get_severity(analysis_data) ==
    LET got == get(analysis_data, severity_key, PyStr(Medium))
    IN  IF ~got.ok THEN got
        ELSE IF got.value.t # "str" THEN Raised("AttributeError")
        ELSE Value(PyStr(validate_severity(capitalize(got.value.v))))

\* pydantic validation of a str field
validate_str(value, coerces) ==
    IF value.t = "str" THEN Value(value)
    ELSE IF value.t = "int" /\ coerces THEN Value(PyStr(str_of_int(value.v)))
    ELSE IF value.t = "float" /\ coerces THEN Value(PyStr(value.v))
    ELSE IF value.t = "bool" /\ coerces
    THEN Value(PyStr(IF value.v THEN <<"T", "r", "u", "e">>
                     ELSE <<"F", "a", "l", "s", "e">>))
    ELSE Raised("ValidationError")

\* pydantic validation of a list[str] field
validate_list_of_str(value, coerces) ==
    IF value.t # "list" THEN Raised("ValidationError")
    ELSE IF \E i \in 1..Len(value.v) : ~validate_str(value.v[i], coerces).ok
    THEN Raised("ValidationError")
    ELSE Value(PyList([i \in 1..Len(value.v) |->
                          validate_str(value.v[i], coerces).value]))

\* lines 43-47: AnalysisResult(risk_summary=..., severity=..., remediation_steps=...)
AnalysisResult(risk_summary, severity, remediation_steps, coerces) ==
    LET rs == validate_str(risk_summary, coerces)
        sv == validate_str(severity, coerces)
        st == validate_list_of_str(remediation_steps, coerces)
    IN  IF ~rs.ok THEN rs
        ELSE IF ~sv.ok THEN sv
        ELSE IF ~st.ok THEN st
        ELSE Value([risk_summary |-> rs.value, severity |-> sv.value,
                    remediation_steps |-> st.value])

\* mutation of except_JSONDecodeError: the message of the exception is left out
except_JSONDecodeError_no_message(e) ==
    HTTPException(500, <<"Failed to parse AI response", "", -1>>)

\* lines 136-140: except json.JSONDecodeError as e
except_JSONDecodeError(e) ==
    HTTPException(500, <<"Failed to parse AI response: ", e.msg, e.pos>>)

\* lines 141-145: except Exception as e
except_Exception(e) ==
    HTTPException(500, <<"Error processing vulnerability: ", e.msg, e.pos>>)

\* mutation of build_result: the defaults are an empty string and an empty list
build_result_empty_defaults(analysis_data, severity, coerces) ==
    AnalysisResult(
        dict_get(analysis_data.v, risk_summary_key, PyStr(<<>>)),
        severity,
        dict_get(analysis_data.v, remediation_steps_key, PyList(<<>>)),
        coerces)

\* lines 130-134: the fields read with their defaults, and the result built
build_result(analysis_data, severity, coerces) ==
    AnalysisResult(
        dict_get(analysis_data.v, risk_summary_key, PyStr(AnalysisCompleted)),
        severity,
        dict_get(analysis_data.v, remediation_steps_key,
                 PyList(<<PyStr(NoSpecificSteps)>>)),
        coerces)

\* lines 111-145: the handler from response.text on
on_reply(text, coerces) ==
    LET analysis_data == json_loads(remove_markdown(text))
    IN  IF ~analysis_data.ok THEN except_JSONDecodeError(analysis_data)
        ELSE
        LET severity == get_severity(analysis_data.value)
        IN  IF ~severity.ok THEN except_Exception(severity)
            ELSE
            LET built == build_result(analysis_data.value, severity.value, coerces)
            IN  IF ~built.ok THEN except_Exception(built) ELSE Ok(built.value)

\* mutation of after_call: a failed provider step is retried once
after_call_retrying(outcome, text, coerces, calls) ==
    LET answer == IF outcome = "raised" THEN except_Exception(Raised("Exception"))
                  ELSE on_reply(text, coerces)
    IN  IF answer.status = 500 /\ calls < 2
        THEN [pc |-> "generate_content", calls |-> calls + 1, response |-> NoResponse]
        ELSE [pc |-> "idle", calls |-> calls, response |-> answer]

\* lines 76-145: the try block once the provider call has ended (outcome is
\* "text" or "raised"): the response is returned and the request is over; the
\* provider is not called again
after_call(outcome, text, coerces, calls) ==
    [pc |-> "idle",
     calls |-> calls,
     response |-> IF outcome = "raised" THEN except_Exception(Raised("Exception"))
                  ELSE on_reply(text, coerces)]

(***************************************************************************)
(* ticket_quality_signal_assistant.py                                      *)
(***************************************************************************)
\* str.split(): the maximal runs of non-whitespace characters
RECURSIVE split_from(_, _, _)
split_from(s, i, word) ==
    IF i > Len(s) THEN (IF word = <<>> THEN <<>> ELSE <<word>>)
    ELSE IF s[i] \in Whitespace
    THEN (IF word = <<>> THEN <<>> ELSE <<word>>) \o split_from(s, i + 1, <<>>)
    ELSE split_from(s, i + 1, Append(word, s[i]))

\* mutation of split: str.split(" "), which cuts at every single space and
\* keeps the empty strings
RECURSIVE split_at_spaces(_, _, _)
split_at_spaces(s, i, word) ==
    IF i > Len(s) THEN <<word>>
    ELSE IF s[i] = " " THEN <<word>> \o split_at_spaces(s, i + 1, <<>>)
    ELSE split_at_spaces(s, i + 1, Append(word, s[i]))

split_on_space(s) == split_at_spaces(s, 1, <<>>)

split(s) == split_from(s, 1, <<>>)

\* the alternatives of r'(?i)security|vulnerability|threat|patch', in order
Keywords ==
    << <<"s", "e", "c", "u", "r", "i", "t", "y">>,
       <<"v", "u", "l", "n", "e", "r", "a", "b", "i", "l", "i", "t", "y">>,
       <<"t", "h", "r", "e", "a", "t">>,
       <<"p", "a", "t", "c", "h">> >>

\* whether alternative k matches at the 1-based position i, ignoring case
matches_at(s, i, k) ==
    /\ i + Len(Keywords[k]) - 1 <= Len(s)
    /\ \A j \in 1..Len(Keywords[k]) : lower_char(s[i + j - 1]) = Keywords[k][j]

\* re.findall: scan from the left; at each position the first alternative that
\* matches is taken and the scan resumes after the match
RECURSIVE findall_from(_, _)
findall_from(s, i) ==
    IF i > Len(s) THEN <<>>
    ELSE IF \E k \in 1..Len(Keywords) : matches_at(s, i, k)
    THEN LET k == CHOOSE k \in 1..Len(Keywords) :
                      /\ matches_at(s, i, k)
                      /\ \A j \in 1..(k - 1) : ~matches_at(s, i, j)
             n == Len(Keywords[k])
         IN  <<SubSeq(s, i, i + n - 1)>> \o findall_from(s, i + n)
    ELSE findall_from(s, i + 1)

findall(s) == findall_from(s, 1)

\* lines 13-30; list(set(...)) is a list in arbitrary order, kept as the set
analyze_ticket_quality(ticket_notes) ==
    LET quality_score == Len(split(ticket_notes)) \div 10
        security_signals == findall(ticket_notes)
    IN  [quality_score |-> quality_score,
         security_signals |-> {security_signals[i] : i \in 1..Len(security_signals)}]

(***************************************************************************)
(* The inputs explored.                                                    *)
(***************************************************************************)
\* all sequences over S of length at most n
SeqsUpTo(S, n) == UNION {[1..k -> S] : k \in 0..n}

RECURSIVE repeat(_, _)
repeat(s, n) == IF n = 0 THEN <<>> ELSE s \o repeat(s, n - 1)

RECURSIVE concat(_)
concat(ss) == IF ss = <<>> THEN <<>> ELSE Head(ss) \o concat(Tail(ss))

RECURSIVE join(_, _)
join(ss, sep) ==
    IF ss = <<>> THEN <<>>
    ELSE IF Len(ss) = 1 THEN ss[1]
    ELSE ss[1] \o sep \o join(Tail(ss), sep)

\* the request bodies: every vulnerability_text over these characters
TextAlphabet == {" ", "\n", "x"}
Texts == SeqsUpTo(TextAlphabet, MaxTextLen)

\* the values of GEMINI_API_KEY: unset, set to "", set to a key
ApiKeys == {None, PyStr(<<>>), PyStr(<<"k">>)}

Quote == "\""
json_string(s) == <<Quote>> \o s \o <<Quote>>
json_member(key, value_text) == json_string(key) \o <<":">> \o value_text
json_object(members) == <<"{">> \o join(members, <<",">>) \o <<"}">>

SeverityMembers ==
    {<<>>}
    \cup {<<json_member(severity_key, t)>> : t \in
            {json_string(<<"c", "R", "I", "T", "I", "C", "A", "L">>),
             json_string(High),
             json_string(<<"I", "n", "f", "o", "r", "m", "a", "t", "i", "o", "n", "a", "l">>),
             json_string(<<>>),
             <<"1">>}}

RiskSummaryMembers ==
    {<<>>}
    \cup {<<json_member(risk_summary_key, t)>> : t \in {json_string(<<"r">>), <<"1">>}}

RemediationStepsMembers ==
    {<<>>}
    \cup {<<json_member(remediation_steps_key, t)>> : t \in
            {<<"[", "]">>,
             <<"[", Quote, "a", Quote, ",", Quote, "b", Quote, "]">>,
             json_string(<<"a">>),
             <<"[", "1", "]">>}}

\* replies that are JSON objects: every severity with no or both other fields,
\* and every pair of the other fields with no severity
ObjectBodies ==
    {json_object(r \o s \o t) :
        s \in SeverityMembers,
        r \in {<<>>, <<json_member(risk_summary_key, json_string(<<"r">>))>>},
        t \in {<<>>, <<json_member(remediation_steps_key,
                        <<"[", Quote, "a", Quote, ",", Quote, "b", Quote, "]">>)>>}}
    \cup {json_object(r \o t) : r \in RiskSummaryMembers, t \in RemediationStepsMembers}

\* other reply bodies: JSON that is no object, text that is no JSON, other
\* layouts, and bodies that themselves carry fence characters
OtherBodies ==
    { <<>>,
      <<"[", "]">>, <<Quote, "a", Quote>>, <<"1">>, <<"n", "u", "l", "l">>,
      <<"x">>, <<"{">>,
      json_string(severity_key),
      <<"{">> \o json_member(severity_key, json_string(High)),
      <<"{">> \o json_member(severity_key, json_string(High)) \o <<",", "}">>,
      <<"{">> \o json_string(severity_key) \o <<" ">> \o json_string(High) \o <<"}">>,
      <<"{", "}", " ", "{", "}">>,
      <<"\n", "{", " ">> \o json_string(severity_key) \o <<" ", ":", " ">>
          \o json_string(<<"l", "o", "w">>) \o <<" ", "}", "\n">>,
      json_object(<<json_member(severity_key, json_string(<<"l", "o", "w">>)),
                    json_member(severity_key, json_string(High))>>),
      Fence \o <<"{", "}">>,
      <<"{", "}">> \o Fence,
      <<" ">> \o Fence \o <<"{", "}">>,
      <<"j", "s", "o", "n", "{", "}">>,
      <<Backtick, "{", "}">>,
      <<"{", "}", Backtick>> }

Bodies == ObjectBodies \cup OtherBodies

\* a reply: a body, with or without an opening and a closing fence, and with
\* whitespace around
Replies ==
    {repeat(<<" ">>, i) \o open \o body \o close \o repeat(<<"\n">>, j) :
        i \in 0..MaxPad, j \in 0..MaxPad,
        open \in {<<>>, Fence, FenceJson}, close \in {<<>>, Fence},
        body \in Bodies}

\* the pieces a ticket is made of
Chunks ==
    { <<" ">>,
      <<"S", "e", "c", "u", "r", "i", "t", "y">>,
      <<"p", "a", "t", "c", "h">>,
      <<"P", "a", "t", "c", "h">>,
      <<"T", "H", "R", "E", "A", "T">>,
      <<"h", "r", "e", "a", "t">>,
      <<"v", "u", "l", "n", "e", "r", "a", "b", "i", "l", "i", "t", "y">> }

FillerBlock == <<"w", " ", "w", "\n", "w", " ">>

\* a ticket: some filler blocks of three words, then some chunks
Tickets ==
    {repeat(FillerBlock, b) \o concat(cs) :
        b \in 0..MaxBlocks, cs \in SeqsUpTo(Chunks, MaxChunks)}

(***************************************************************************)
(* The service: Init and the actions.                                      *)
(***************************************************************************)
NoRequest == [path |-> "", vulnerability_text |-> <<>>]
NoCall == [calls |-> 0, outcome |-> "none", text |-> <<>>]
NoFile == [exists |-> FALSE, readable |-> FALSE, content |-> <<>>]
\* a path that exists and cannot be read as text (a directory, say)
UnreadableFile == [exists |-> TRUE, readable |-> FALSE, content |-> <<>>]
NoResults == [quality_score |-> 0, security_signals |-> {}]
NoOutput == [kind |-> "none", quality_score |-> 0, security_signals |-> {}]

ServiceInit ==
    /\ GEMINI_API_KEY \in ApiKeys
    /\ pydantic_coerces \in BOOLEAN
    /\ pc = "idle"
    /\ request = NoRequest
    /\ provider = NoCall
    /\ response = NoResponse

Init ==
    /\ ServiceInit
    /\ ticket_file = NoFile
    /\ results = NoResults
    /\ stdout = NoOutput

\* GET /, lines 50-53
root ==
    /\ pc = "idle"
    /\ request' = [path |-> "/", vulnerability_text |-> <<>>]
    /\ provider' = NoCall
    /\ response' = [status |-> 200,
                    message |-> "AI Security Report Assistant API is running",
                    detail |-> <<>>, result |-> <<>>]
    /\ UNCHANGED <<GEMINI_API_KEY, pydantic_coerces, pc, cli_vars>>

\* POST /process, lines 56-109: the checks, then the call of the provider
process_vulnerability(vulnerability_text) ==
    /\ pc = "idle"
    /\ request' = [path |-> "/process", vulnerability_text |-> vulnerability_text]
    /\ LET failed == precheck(vulnerability_text, GEMINI_API_KEY)
       IN  IF failed # <<>>
           THEN /\ response' = failed[1]
                /\ provider' = NoCall
                /\ pc' = "idle"
           ELSE /\ response' = NoResponse
                /\ provider' = [calls |-> 1, outcome |-> "pending", text |-> <<>>]
                /\ pc' = "generate_content"
    /\ UNCHANGED <<GEMINI_API_KEY, pydantic_coerces, cli_vars>>

\* lines 106-145: model.generate_content returns a response whose text is
\* response_text, and the handler runs to its end
generate_content_returns(response_text) ==
    /\ pc = "generate_content"
    /\ \E step \in {after_call("text", response_text, pydantic_coerces, provider.calls)} :
           /\ provider' = [calls |-> step.calls,
                           outcome |-> IF step.pc = "idle" THEN "text" ELSE "pending",
                           text |-> IF step.pc = "idle" THEN response_text ELSE <<>>]
           /\ response' = step.response
           /\ pc' = step.pc
    /\ UNCHANGED <<GEMINI_API_KEY, pydantic_coerces, request, cli_vars>>

\* lines 106-112, 141-145: model.generate_content, or response.text, raises
generate_content_raises ==
    /\ pc = "generate_content"
    /\ \E step \in {after_call("raised", <<>>, pydantic_coerces, provider.calls)} :
           /\ provider' = [calls |-> step.calls,
                           outcome |-> IF step.pc = "idle" THEN "raised" ELSE "pending",
                           text |-> <<>>]
           /\ response' = step.response
           /\ pc' = step.pc
    /\ UNCHANGED <<GEMINI_API_KEY, pydantic_coerces, request, cli_vars>>

Next ==
    \/ root
    \/ \E vulnerability_text \in Texts : process_vulnerability(vulnerability_text)
    \/ \E response_text \in Replies : generate_content_returns(response_text)
    \/ generate_content_raises

Spec == Init /\ [][Next]_vars

(***************************************************************************)
(* The ticket scorer: one run of the command line on one file.             *)
(***************************************************************************)
CliInit ==
    /\ GEMINI_API_KEY = None
    /\ pydantic_coerces = FALSE
    /\ pc = "idle"
    /\ request = NoRequest
    /\ provider = NoCall
    /\ response = NoResponse
    /\ ticket_file \in
           {NoFile, UnreadableFile}
           \cup {[exists |-> TRUE, readable |-> TRUE, content |-> t] : t \in Tickets}
    /\ results = NoResults
    /\ stdout = NoOutput

\* cli(), lines 48-57: the file is read, analysed and the report printed
cli_report ==
    /\ stdout = NoOutput
    /\ ticket_file.exists
    /\ ticket_file.readable
    /\ results' = analyze_ticket_quality(ticket_file.content)
    /\ stdout' = [kind |-> "report",
                  quality_score |-> results'.quality_score,
                  security_signals |-> results'.security_signals]
    /\ UNCHANGED <<service_vars, ticket_file>>

\* cli(), lines 59-60: except FileNotFoundError
cli_file_not_found ==
    /\ stdout = NoOutput
    /\ ~ticket_file.exists
    /\ stdout' = [kind |-> "file not found", quality_score |-> 0, security_signals |-> {}]
    /\ UNCHANGED <<service_vars, ticket_file, results>>

\* cli(), lines 61-62: except Exception
cli_other_error ==
    /\ stdout = NoOutput
    /\ ticket_file.exists
    /\ ~ticket_file.readable
    /\ stdout' = [kind |-> "error", quality_score |-> 0, security_signals |-> {}]
    /\ UNCHANGED <<service_vars, ticket_file, results>>

CliNext == cli_report \/ cli_file_not_found \/ cli_other_error

CliSpec == CliInit /\ [][CliNext]_vars

(***************************************************************************)
(* Properties of the service.                                              *)
(***************************************************************************)
\* the request is a POST /process whose handler has returned
Served == pc = "idle" /\ request.path = "/process"

\* the provider returned a text for the request and the handler has returned
Replied == Served /\ provider.outcome = "text"

\* every character is whitespace (the empty text included)
IsBlank(text) == \A i \in 1..Len(text) : text[i] \in Whitespace

\* the text between its first and its last non-whitespace character
Trimmed(text) ==
    LET black == {i \in 1..Len(text) : text[i] \notin Whitespace}
    IN  IF black = {} THEN <<>>
        ELSE SubSeq(text, CHOOSE i \in black : \A j \in black : i <= j,
                          CHOOSE i \in black : \A j \in black : i >= j)

\* what json.loads made of the reply
Parsed == json_loads(remove_markdown(provider.text))

\* the reply parsed as a JSON object
ParsedObject == Replied /\ Parsed.ok /\ Parsed.value.t = "dict"

\* the ways to read text as whitespace, an opening fence, a body, a closing
\* fence, whitespace: [open, body]
Fenced(text) ==
    LET m == Trimmed(text)
    IN  {[open |-> o, body |-> SubSeq(m, Len(o) + 1, Len(m) - 3)] :
            o \in {f \in {Fence, FenceJson} :
                     /\ Len(m) >= Len(f) + 3
                     /\ SubSeq(m, 1, Len(f)) = f
                     /\ SubSeq(m, Len(m) - 2, Len(m)) = Fence}}

\* C4 as stated: for every reply that is a body wrapped in a leading fence
\* (three backticks, with or without "json") and a trailing fence, with
\* optional whitespace around, the outcome of the request is that of a reply
\* consisting of the body alone.
C4_FencedLikeBody ==
    Replied =>
        \A f \in Fenced(provider.text) :
            response = on_reply(f.body, pydantic_coerces)

HasPrefix(s, prefix) == Len(s) >= Len(prefix) /\ SubSeq(s, 1, Len(prefix)) = prefix
HasSuffix(s, suffix) ==
    Len(s) >= Len(suffix) /\ SubSeq(s, Len(s) - Len(suffix) + 1, Len(s)) = suffix

\* a wrapped body that carries no fence of its own: trimmed, it neither starts
\* nor ends with three backticks, and after a plain opening fence it does not
\* start with "json" (which would make the opening fence a "json" fence)
PlainBody(f) ==
    /\ ~HasPrefix(Trimmed(f.body), Fence)
    /\ ~HasSuffix(Trimmed(f.body), Fence)
    /\ f.open = Fence => ~HasPrefix(f.body, <<"j", "s", "o", "n">>)

\* C4 as amended: for every reply that is a body wrapped in a leading fence and
\* a trailing fence, with optional whitespace around, where the body carries no
\* fence of its own, the text parsed is the trimmed body, and the outcome of the
\* request is that of a reply consisting of the body alone.
C4_FencedPlainBodyLikeBody ==
    Replied =>
        \A f \in Fenced(provider.text) :
            PlainBody(f) =>
                /\ remove_markdown(provider.text) = Trimmed(f.body)
                /\ response = on_reply(f.body, pydantic_coerces)

\* a fenced reply with a JSON object inside was answered with a result
C4_Witness ==
    /\ Replied
    /\ \E f \in Fenced(provider.text) :
           /\ PlainBody(f)
           /\ f.open = FenceJson
           /\ f.body # Trimmed(f.body)
    /\ response.status = 200

\* C1: every POST /process whose vulnerability_text is empty or only
\* whitespace fails with status 400 and the provider is never called for it,
\* whether or not a credential is configured.
C1_BlankTextRejected ==
    (request.path = "/process" /\ IsBlank(request.vulnerability_text)) =>
        /\ pc = "idle"
        /\ response.status = 400
        /\ response.result = <<>>
        /\ provider.calls = 0
        /\ provider.outcome = "none"

\* a whitespace-only text was rejected with 400 although no credential is set
C1_Witness ==
    /\ request.path = "/process"
    /\ request.vulnerability_text # <<>>
    /\ IsBlank(request.vulnerability_text)
    /\ GEMINI_API_KEY = None
    /\ response.status = 400

\* no provider credential: GEMINI_API_KEY is unset or set to the empty string
NoCredential == GEMINI_API_KEY = None \/ GEMINI_API_KEY = PyStr(<<>>)

\* C6: every request with a non-blank text when no credential is configured
\* fails with status 500 and a detail message, and the provider is never
\* called.
C6_NoCredentialRejected ==
    (request.path = "/process" /\ ~IsBlank(request.vulnerability_text) /\ NoCredential) =>
        /\ pc = "idle"
        /\ response.status = 500
        /\ response.detail # <<>>
        /\ response.result = <<>>
        /\ provider.calls = 0
        /\ provider.outcome = "none"

\* a non-blank text was rejected with 500 with GEMINI_API_KEY set to ""
C6_Witness ==
    /\ request.path = "/process"
    /\ ~IsBlank(request.vulnerability_text)
    /\ GEMINI_API_KEY = PyStr(<<>>)
    /\ response.status = 500

\* C2: in every status 200 response of POST /process, severity is exactly one
\* of "Low", "Medium", "High", "Critical".
C2_SeverityAllowed ==
    (Served /\ response.status = 200) =>
        /\ Len(response.result) = 1
        /\ response.result[1].severity.t = "str"
        /\ response.result[1].severity.v \in AllowedSeverities

\* a reply whose severity is no label, in any case, was answered with "Medium"
C2_Witness ==
    /\ ParsedObject
    /\ dict_has(Parsed.value.v, severity_key)
    /\ dict_get(Parsed.value.v, severity_key, None) =
           PyStr(<<"I", "n", "f", "o", "r", "m", "a", "t", "i", "o", "n", "a", "l">>)
    /\ response.status = 200
    /\ response.result[1].severity = PyStr(Medium)

\* the label that equals s up to the case of its letters, if there is one
LabelsOf(s) == {label \in AllowedSeverities : lower(label) = lower(s)}

\* C3: the returned severity is the allowed label whose letters are those of
\* the parsed severity up to case (its capitalized form is the label), and
\* "Medium" when there is none or when severity is absent.
C3_SeverityNormalized ==
    (ParsedObject /\ response.status = 200) =>
        LET pairs == Parsed.value.v
            given == dict_get(pairs, severity_key, None)
        IN  response.result[1].severity.v =
                IF ~dict_has(pairs, severity_key) THEN Medium
                ELSE IF LabelsOf(given.v) # {}
                THEN CHOOSE label \in LabelsOf(given.v) : TRUE
                ELSE Medium

\* a reply with severity "cRITICAL" was answered with "Critical"
C3_Witness ==
    /\ ParsedObject
    /\ dict_get(Parsed.value.v, severity_key, None) =
           PyStr(<<"c", "R", "I", "T", "I", "C", "A", "L">>)
    /\ response.status = 200
    /\ response.result[1].severity = PyStr(Critical)

\* C5: when the reply, after fence stripping, is not parseable as JSON, the
\* request fails with status 500, the detail carries the message of the parse
\* exception, and no AnalysisResult is returned.
C5_ParseFailureIs500 ==
    (Replied /\ ~Parsed.ok) =>
        /\ response.status = 500
        /\ response.detail = <<"Failed to parse AI response: ", Parsed.msg, Parsed.pos>>
        /\ Parsed.msg # ""
        /\ response.result = <<>>

\* a fenced reply with text after the JSON value was answered with 500
C5_Witness ==
    /\ Replied
    /\ Fenced(provider.text) # {}
    /\ ~Parsed.ok
    /\ Parsed.msg = "Extra data"
    /\ response.status = 500

\* the value has the type the field of AnalysisResult declares
IsStr(value) == value.t = "str"
IsListOfStr(value) ==
    value.t = "list" /\ \A i \in 1..Len(value.v) : value.v[i].t = "str"

\* C7 as stated: for every parsed reply object, a missing risk_summary comes
\* back as "Analysis completed", a missing remediation_steps as
\* ["No specific steps provided"], and the value of a key that is present comes
\* back unchanged.
C7_DefaultsOrUnchanged ==
    (ParsedObject /\ response.status = 200) =>
        LET pairs == Parsed.value.v
        IN  /\ response.result[1].risk_summary =
                   dict_get(pairs, risk_summary_key, PyStr(AnalysisCompleted))
            /\ response.result[1].remediation_steps =
                   dict_get(pairs, remediation_steps_key,
                            PyList(<<PyStr(NoSpecificSteps)>>))

\* C7 as amended: for every parsed reply object answered with a result, a
\* missing risk_summary comes back as "Analysis completed", a missing
\* remediation_steps as ["No specific steps provided"], and the value of a key
\* that is present and has the declared type (a string, a list of strings)
\* comes back unchanged.
C7_DefaultsOrTypedUnchanged ==
    (ParsedObject /\ response.status = 200) =>
        LET pairs == Parsed.value.v
            risk == dict_get(pairs, risk_summary_key, None)
            steps == dict_get(pairs, remediation_steps_key, None)
        IN  /\ ~dict_has(pairs, risk_summary_key) =>
                   response.result[1].risk_summary = PyStr(AnalysisCompleted)
            /\ ~dict_has(pairs, remediation_steps_key) =>
                   response.result[1].remediation_steps =
                       PyList(<<PyStr(NoSpecificSteps)>>)
            /\ (dict_has(pairs, risk_summary_key) /\ IsStr(risk)) =>
                   response.result[1].risk_summary = risk
            /\ (dict_has(pairs, remediation_steps_key) /\ IsListOfStr(steps)) =>
                   response.result[1].remediation_steps = steps

\* a reply with remediation_steps but no risk_summary was answered with the
\* default summary and the steps given
C7_Witness ==
    /\ ParsedObject
    /\ ~dict_has(Parsed.value.v, risk_summary_key)
    /\ dict_has(Parsed.value.v, remediation_steps_key)
    /\ response.status = 200
    /\ response.result[1].risk_summary = PyStr(AnalysisCompleted)
    /\ Len(response.result[1].remediation_steps.v) = 2

\* C8: in every status 200 result of POST /process, remediation_steps is a
\* non-empty sequence.
C8_StepsNonEmpty ==
    (Served /\ response.status = 200) =>
        Len(response.result[1].remediation_steps.v) > 0

\* the provider step of the request failed: the call raised, the reply is no
\* JSON, or the JSON is no object, holds a severity that is no string, or holds
\* remediation_steps that is no list
ProviderStepFailed ==
    \/ provider.outcome = "raised"
    \/ /\ provider.outcome = "text"
       /\ \/ ~Parsed.ok
          \/ Parsed.value.t # "dict"
          \/ /\ dict_has(Parsed.value.v, severity_key)
             /\ dict_get(Parsed.value.v, severity_key, None).t # "str"
          \/ /\ dict_has(Parsed.value.v, remediation_steps_key)
             /\ dict_get(Parsed.value.v, remediation_steps_key, None).t # "list"

\* C10: a request calls the provider at most once, and every failure of the
\* provider step ends the request with a status 500 response carrying a
\* detail message: no retry, no result.
C10_OneCallFailureTerminal ==
    /\ provider.calls <= 1
    /\ provider.outcome \in {"text", "raised"} => (pc = "idle" /\ provider.calls = 1)
    /\ ProviderStepFailed =>
           /\ pc = "idle"
           /\ response.status = 500
           /\ response.detail # <<>>
           /\ response.detail[1] # ""
           /\ response.result = <<>>

\* a reply that is JSON but no object was answered with 500
C10_Witness ==
    /\ Replied
    /\ Parsed.ok
    /\ Parsed.value.t = "list"
    /\ provider.calls = 1
    /\ response.status = 500

(***************************************************************************)
(* Properties of the ticket scorer.                                        *)
(***************************************************************************)
\* the command line has printed the report for the file
Reported == stdout.kind = "report"

\* the number of whitespace-separated words: the positions where a word starts
WordCount(text) ==
    Cardinality({i \in 1..Len(text) :
                    /\ text[i] \notin Whitespace
                    /\ i = 1 \/ text[i - 1] \in Whitespace})

\* the character is the letter k of a keyword, in lower or in upper case
SameLetter(c, k) == c = k \/ c = upper_char(k)

\* the text spells the word w from position i on, in any case
SpellsAt(text, i, w) ==
    /\ i + Len(w) - 1 <= Len(text)
    /\ \A j \in 1..Len(w) : SameLetter(text[i + j - 1], w[j])

\* the places <<first, last>> where the text spells a keyword, in any case
Occurrences(text) ==
    {<<q[1], q[1] + Len(Keywords[q[2]]) - 1>> :
        q \in {r \in (1..Len(text)) \X (1..Len(Keywords)) :
                  SpellsAt(text, r[1], Keywords[r[2]])}}

\* the distinct substrings of the text that match a keyword, in any case
MatchingSubstrings(text) == {SubSeq(text, p[1], p[2]) : p \in Occurrences(text)}

\* no two occurrences of keywords share a character
NoOverlap(text) ==
    \A p, q \in Occurrences(text) : p = q \/ p[2] < q[1] \/ q[2] < p[1]

\* C9 as stated: quality_score is floor(words / 10) and security_signals is the
\* set of distinct substrings of the text that match one of the keywords
\* case-insensitively, each in the case as found.
C9_ScoreAndAllMatches ==
    Reported =>
        /\ results.quality_score = WordCount(ticket_file.content) \div 10
        /\ results.security_signals = MatchingSubstrings(ticket_file.content)

\* C9 as amended: quality_score is floor(words / 10); security_signals holds
\* only substrings of the text that match a keyword case-insensitively, each in
\* the case as found, and holds all of them when no two occurrences of
\* keywords in the text overlap.
C9_ScoreAndMatches ==
    Reported =>
        /\ results.quality_score = WordCount(ticket_file.content) \div 10
        /\ results.security_signals \subseteq MatchingSubstrings(ticket_file.content)
        /\ NoOverlap(ticket_file.content) =>
               results.security_signals = MatchingSubstrings(ticket_file.content)

\* a ticket of 25 words with "Security" and "patch" scored 2 with both signals
C9_Witness ==
    /\ Reported
    /\ WordCount(ticket_file.content) = 25
    /\ results.quality_score = 2
    /\ results.security_signals =
           { <<"S", "e", "c", "u", "r", "i", "t", "y">>, <<"p", "a", "t", "c", "h">> }

====
